---- MODULE Spec2Model ----
(***************************************************************************)
(* A model of hatch's display bridge (hatchling/bridge/app.py) and of its  *)
(* process-execution layer (hatch/utils/platform.py).                      *)
(*                                                                         *)
(*   Spec      the Local facade, class Application                         *)
(*   FwdSpec   the Forwarding facade, class InvokedApplication             *)
(*   FmtSpec   format_app_command on arbitrary serialized bytes            *)
(*   PlatSpec  class Platform running a child process                      *)
(*   PlatFair  PlatSpec with the scheduling of the two processes           *)
(***************************************************************************)
EXTENDS Integers, Sequences, FiniteSets, TLC

(***************************************************************************)
(* Bounds of the model.                                                    *)
(***************************************************************************)
\* HATCH_VERBOSE and HATCH_QUIET range over "0" .. MaxEnv
MaxEnv == 3
\* longest serialized byte string FmtSpec formats
MaxBytes == 3
\* most characters a child process writes
MaxOut == 3
\* bytes the pipe between child and hosting process holds
PipeCap == 2

VARIABLES
    \* ---- bridge/app.py ----
    environ,      \* os.environ: HATCH_VERBOSE and HATCH_QUIET
    verbosity,    \* Application.__verbosity
    printed,      \* lines print() wrote to stdout since the last call was
                  \* entered; a line is the sequence of its pieces
    status,       \* "running", or "exited" once sys.exit was called
    exit_code,    \* the argument of sys.exit
    raised,       \* exception the last call raised to its caller, "" if none
    call,         \* the last call: [method, args, kwargs]
    pc,           \* "called" while the call is being served, else "idle"
    \* ---- format_app_command alone ----
    procedure,    \* the bytes pickle.dumps returned
    command,      \* the string format_app_command returned
    \* ---- utils/platform.py: the hosting process ----
    system,             \* what platform.system() reports
    platform_name,      \* the lru_cache of get_platform_name
    name,               \* Platform.__name
    displaying_status,  \* Platform.displaying_status
    hpc,                \* where the hosting process is in the current call
    op,                 \* the method called: run_command, check_command, ...
    capture_output,     \* the capture_output keyword: "absent", "True", "False"
    mode,               \* how run_command runs the command: "direct", "integrated"
    rbuf,               \* bytes process.stdout holds buffered
    captured,           \* bytes process.communicate() has read
    returncode,         \* Popen.returncode
    displayed,          \* what the current call passed to __display_func
    result,             \* what the call returned
    \* ---- the child process ----
    cstate,       \* "none", "running", "closed" (stdout closed), "exited"
    ctext,        \* the characters the child writes in its life
    cbytes,       \* the bytes it has still to write
    ccode,        \* its exit code
    piped,        \* whether its stdout is a pipe to the hosting process
    pipe,         \* the bytes in that pipe
    terminal      \* the bytes it wrote to the inherited stdout

appVars == <<environ, verbosity, printed, status, exit_code, raised, call, pc>>
fmtVars == <<procedure, command>>
hostVars == <<system, platform_name, name, displaying_status, hpc, op, capture_output,
              mode, rbuf, captured, returncode, displayed, result>>
childVars == <<cstate, ctext, cbytes, ccode, piped, pipe, terminal>>
platVars == <<hostVars, childVars>>

(***************************************************************************)
(* Python values: a str is [str |-> s], an int is [int |-> n].  A tuple is *)
(* a sequence, a dict the sequence of its <<key, value>> items in          *)
(* insertion order.                                                        *)
(***************************************************************************)
S(s) == [str |-> s]
I(n) == [int |-> n]

Messages == {"", "hi", "a\nb"}
Levels == 0 .. 4
Codes == {0, 2, 3}
IntArgs == {2, 4}

NoCall == [method |-> "", args |-> <<>>, kwargs |-> <<>>]

\* os.environ.get(name, '0') holds a decimal string
Decimal == <<"0", "1", "2", "3", "4", "5", "6", "7", "8", "9">>
EnvValues == {Decimal[i + 1] : i \in 0 .. MaxEnv}

\* int(s) of a one-digit decimal string
int(s) == (CHOOSE i \in 1 .. Len(Decimal) : Decimal[i] = s) - 1

\* print(x): one line on stdout
print(out, line) == Append(out, line)

\* sys.exit(code)
sys_exit(code) ==
    /\ status' = "exited"
    /\ exit_code' = code

Returns ==
    /\ raised' = ""
    /\ UNCHANGED <<status, exit_code>>

(***************************************************************************)
(* class Application                                                       *)
(***************************************************************************)
Application_init(env) == int(env.HATCH_VERBOSE) - int(env.HATCH_QUIET)

Application_display(message) ==
    /\ printed' = print(<<>>, <<message>>)
    /\ Returns

Application_display_info(message) ==
    /\ printed' = IF verbosity >= 0 THEN print(<<>>, <<message>>) ELSE <<>>
    /\ Returns

Application_display_waiting(message) ==
    /\ printed' = IF verbosity >= 0 THEN print(<<>>, <<message>>) ELSE <<>>
    /\ Returns

Application_display_success(message) ==
    /\ printed' = IF verbosity >= 0 THEN print(<<>>, <<message>>) ELSE <<>>
    /\ Returns

Application_display_warning_early(message) ==
    /\ printed' = IF verbosity >= 0 THEN print(<<>>, <<message>>) ELSE <<>>
    /\ Returns

Application_display_warning(message) ==
    /\ printed' = IF verbosity >= -1 THEN print(<<>>, <<message>>) ELSE <<>>
    /\ Returns

Application_display_error(message) ==
    /\ printed' = IF verbosity >= -2 THEN print(<<>>, <<message>>) ELSE <<>>
    /\ Returns

Application_display_debug_filter_first(message, level) ==
    IF verbosity < level
    THEN /\ printed' = <<>>
         /\ Returns
    ELSE IF ~(1 <= level /\ level <= 3)
    THEN /\ printed' = <<>>
         /\ raised' = "ValueError"
         /\ UNCHANGED <<status, exit_code>>
    ELSE /\ printed' = print(<<>>, <<message>>)
         /\ Returns

Application_display_debug(message, level) ==
    IF ~(1 <= level /\ level <= 3)
    THEN /\ printed' = <<>>
         /\ raised' = "ValueError"
         /\ UNCHANGED <<status, exit_code>>
    ELSE /\ printed' = IF verbosity >= level THEN print(<<>>, <<message>>) ELSE <<>>
         /\ Returns

Application_display_mini_header(message) ==
    /\ printed' = IF verbosity >= 0 THEN print(<<>>, <<"[", message, "]">>) ELSE <<>>
    /\ Returns

Application_abort(message, code) ==
    /\ printed' = IF message # "" /\ verbosity >= -2
                  THEN print(<<>>, <<message>>) ELSE <<>>
    /\ raised' = ""
    /\ sys_exit(code)

(***************************************************************************)
(* The command encoding bridge                                             *)
(***************************************************************************)
T(items) == [tuple |-> items]
D(items) == [dict |-> items]

\* str.encode('utf-8') of the strings the model uses
Utf8(s) ==
    CASE s = "display" -> <<100, 105, 115, 112, 108, 97, 121>>
      [] s = "display_info" -> <<100, 105, 115, 112, 108, 97, 121, 95, 105, 110, 102, 111>>
      [] s = "display_waiting" ->
            <<100, 105, 115, 112, 108, 97, 121, 95, 119, 97, 105, 116, 105, 110, 103>>
      [] s = "display_success" ->
            <<100, 105, 115, 112, 108, 97, 121, 95, 115, 117, 99, 99, 101, 115, 115>>
      [] s = "display_warning" ->
            <<100, 105, 115, 112, 108, 97, 121, 95, 119, 97, 114, 110, 105, 110, 103>>
      [] s = "display_error" ->
            <<100, 105, 115, 112, 108, 97, 121, 95, 101, 114, 114, 111, 114>>
      [] s = "display_debug" ->
            <<100, 105, 115, 112, 108, 97, 121, 95, 100, 101, 98, 117, 103>>
      [] s = "display_mini_header" ->
            <<100, 105, 115, 112, 108, 97, 121, 95, 109, 105, 110, 105, 95, 104, 101, 97,
              100, 101, 114>>
      [] s = "abort" -> <<97, 98, 111, 114, 116>>
      [] s = "" -> <<>>
      [] s = "hi" -> <<104, 105>>
      [] s = "a\nb" -> <<97, 10, 98>>
      [] s = "level" -> <<108, 101, 118, 101, 108>>
      [] s = "code" -> <<99, 111, 100, 101>>

\* struct.pack little-endian, k bytes, two's complement
RECURSIVE LittleEndian(_, _)
LittleEndian(n, k) ==
    IF k = 0 THEN <<>> ELSE <<n % 256>> \o LittleEndian(n \div 256, k - 1)

RECURSIVE pickle_save(_)
RECURSIVE pickle_save_all(_)

\* the picklings of the items of a sequence, one after the other
pickle_save_all(items) ==
    IF items = <<>> THEN <<>>
    ELSE pickle_save(Head(items)) \o pickle_save_all(Tail(items))

\* pickle protocol 4, Pickler.save: the opcodes of one object
pickle_save(obj) ==
    CASE DOMAIN obj = {"str"} ->
            \* SHORT_BINUNICODE, MEMOIZE
            <<140, Len(Utf8(obj.str))>> \o Utf8(obj.str) \o <<148>>
      [] DOMAIN obj = {"int"} ->
            IF 0 <= obj.int /\ obj.int <= 255 THEN <<75, obj.int>>
            ELSE IF 0 <= obj.int /\ obj.int <= 65535
            THEN <<77>> \o LittleEndian(obj.int, 2)
            ELSE <<74>> \o LittleEndian(obj.int, 4)
      [] DOMAIN obj = {"tuple"} ->
            IF obj.tuple = <<>> THEN <<41>>
            ELSE IF Len(obj.tuple) <= 3
            THEN pickle_save_all(obj.tuple) \o <<132 + Len(obj.tuple), 148>>
            ELSE <<40>> \o pickle_save_all(obj.tuple) \o <<116, 148>>
      [] DOMAIN obj = {"dict"} ->
            <<125, 148>> \o
            ( IF obj.dict = <<>> THEN <<>>
              ELSE IF Len(obj.dict) = 1
              THEN pickle_save(obj.dict[1][1]) \o pickle_save(obj.dict[1][2]) \o <<115>>
              ELSE <<40>>
                   \o pickle_save_all([i \in 1 .. 2 * Len(obj.dict) |->
                                          obj.dict[(i + 1) \div 2][2 - (i % 2)]])
                   \o <<117>> )

\* pickle.dumps(obj, 4): PROTO 4, one FRAME, the object, STOP
pickle_dumps(obj) ==
    LET body == pickle_save(obj) \o <<46>>
    IN  <<128, 4>> \o
        (IF Len(body) >= 4 THEN <<149>> \o LittleEndian(Len(body), 8) ELSE <<>>) \o body

HexDigits == <<"0", "1", "2", "3", "4", "5", "6", "7", "8", "9",
               "a", "b", "c", "d", "e", "f">>

\* '%x' % i
hex(i) ==
    IF i < 16 THEN <<HexDigits[i + 1]>>
    ELSE <<HexDigits[(i \div 16) + 1], HexDigits[(i % 16) + 1]>>

percent_02x_unpadded(i) == hex(i)

\* '%02x' % i: zero padded on the left to two characters
percent_02x(i) == IF Len(hex(i)) < 2 THEN <<"0">> \o hex(i) ELSE hex(i)

RECURSIVE join_hex(_)
\* ''.join('%02x' % i for i in procedure)
join_hex(bytes) ==
    IF bytes = <<>> THEN <<>>
    ELSE percent_02x(Head(bytes)) \o join_hex(Tail(bytes))

\* f"__HATCH__:{...}": the tag, the colon, the digits
format_procedure(bytes) == <<"__HATCH__", ":">> \o join_hex(bytes)

format_app_command(method, args, kwargs) ==
    format_procedure(pickle_dumps(T(<<S(method), T(args), D(kwargs)>>)))

_send_app_command(cmd) == printed' = print(<<>>, cmd)

send_app_command(method, args, kwargs) ==
    _send_app_command(format_app_command(method, args, kwargs))

RECURSIVE dict_get(_, _, _)
\* dict.get(key, default)
dict_get(items, key, default) ==
    IF items = <<>> THEN default
    ELSE IF Head(items)[1] = key THEN Head(items)[2]
    ELSE dict_get(Tail(items), key, default)

(***************************************************************************)
(* class InvokedApplication                                                *)
(***************************************************************************)
InvokedApplication_display(args, kwargs) ==
    /\ send_app_command("display", args, kwargs)
    /\ Returns

InvokedApplication_display_info_as_display(args, kwargs) ==
    /\ send_app_command("display", args, kwargs)
    /\ Returns

InvokedApplication_display_info(args, kwargs) ==
    /\ send_app_command("display_info", args, kwargs)
    /\ Returns

InvokedApplication_display_waiting(args, kwargs) ==
    /\ send_app_command("display_waiting", args, kwargs)
    /\ Returns

InvokedApplication_display_success(args, kwargs) ==
    /\ send_app_command("display_success", args, kwargs)
    /\ Returns

InvokedApplication_display_warning(args, kwargs) ==
    /\ send_app_command("display_warning", args, kwargs)
    /\ Returns

InvokedApplication_display_error(args, kwargs) ==
    /\ send_app_command("display_error", args, kwargs)
    /\ Returns

InvokedApplication_display_debug(args, kwargs) ==
    /\ send_app_command("display_debug", args, kwargs)
    /\ Returns

InvokedApplication_display_mini_header(args, kwargs) ==
    /\ send_app_command("display_mini_header", args, kwargs)
    /\ Returns

InvokedApplication_abort(args, kwargs) ==
    /\ send_app_command("abort", args, kwargs)
    /\ raised' = ""
    /\ sys_exit(dict_get(kwargs, S("code"), I(1)).int)

RECURSIVE SeqsUpTo(_, _)
SeqsUpTo(set, n) ==
    IF n = 0 THEN {<<>>}
    ELSE LET shorter == SeqsUpTo(set, n - 1)
         IN  shorter \cup {Append(s, x) : s \in shorter, x \in set}

(***************************************************************************)
(* utils/platform.py                                                       *)
(*                                                                         *)
(* An optional value is a sequence: None is <<>>, the value x is <<x>>.    *)
(* Text is a sequence of characters, "e-acute" standing for U+00E9.        *)
(***************************************************************************)
None == <<>>
Some(x) == <<x>>

SystemNames == {"Linux", "Windows", "Darwin", "FreeBSD"}

\* str.lower() of the names platform.system() reports
lower(s) ==
    CASE s = "Linux" -> "linux"
      [] s = "Windows" -> "windows"
      [] s = "Darwin" -> "darwin"
      [] s = "FreeBSD" -> "freebsd"

normalize_platform_name(platform_name_) ==
    IF lower(platform_name_) = "darwin" THEN "macos" ELSE lower(platform_name_)

\* the value get_platform_name returns: the cached one, when there is one
get_platform_name ==
    IF platform_name # None THEN platform_name[1]
    ELSE normalize_platform_name(system)

\* the property Platform.name, with what it leaves in the two caches
Platform_name ==
    /\ name' = IF name = None THEN Some(get_platform_name) ELSE name
    /\ platform_name' = IF name = None /\ platform_name = None
                        THEN Some(get_platform_name) ELSE platform_name

Chars == {"a", "e-acute", "\n"}

\* str.encode('utf-8') of one character
Utf8Char(c) ==
    CASE c = "a" -> <<97>>
      [] c = "\n" -> <<10>>
      [] c = "e-acute" -> <<195, 169>>

RECURSIVE encode(_)
\* what a child writing this text puts on its stdout
encode(text) ==
    IF text = <<>> THEN <<>> ELSE Utf8Char(Head(text)) \o encode(Tail(text))

RECURSIVE decode(_)
\* bytes.decode('utf-8'); <<"UnicodeDecodeError">> stands for the exception
decode(bytes) ==
    IF bytes = <<>> THEN <<>>
    ELSE LET rest == IF Head(bytes) < 128 THEN decode(Tail(bytes))
                     ELSE IF Len(bytes) >= 2 THEN decode(Tail(Tail(bytes)))
                     ELSE <<"UnicodeDecodeError">>
             char == IF Head(bytes) = 97 THEN "a"
                     ELSE IF Head(bytes) = 10 THEN "\n"
                     ELSE IF Head(bytes) = 195 /\ Len(bytes) >= 2 /\ bytes[2] = 169
                     THEN "e-acute"
                     ELSE "UnicodeDecodeError"
         IN  IF char = "UnicodeDecodeError" \/ rest = <<"UnicodeDecodeError">>
             THEN <<"UnicodeDecodeError">>
             ELSE <<char>> \o rest

ChildCodes == {0, 1, 3}

NoResult == [kind |-> "none", returncode |-> None, stdout |-> None, text |-> <<>>]

\* subprocess.CompletedProcess(args, returncode, stdout, stderr)
CompletedProcess(code, out) ==
    [kind |-> "CompletedProcess", returncode |-> code, stdout |-> out, text |-> <<>>]

\* the str check_command_output returns
Text(s) == [kind |-> "str", returncode |-> None, stdout |-> None, text |-> s]

NoChild ==
    /\ cstate' = "none"
    /\ ctext' = <<>>
    /\ cbytes' = <<>>
    /\ ccode' = 0
    /\ piped' = FALSE

\* subprocess.Popen(...): a child is running
Popen(stdout_is_pipe) ==
    /\ cstate' = "running"
    /\ ctext' = <<>>
    /\ cbytes' = <<>>
    /\ ccode' = 0
    /\ piped' = stdout_is_pipe

KwValues == {"absent", "True", "False"}

\* a method of Platform is called: nothing is left of the call before
call_method ==
    /\ hpc = "idle"
    /\ status = "running"
    /\ hpc' = "called"
    /\ op' \in {"run_command", "check_command", "check_command_output"}
    /\ capture_output' \in KwValues
    /\ mode' = ""
    /\ rbuf' = <<>>
    /\ captured' = <<>>
    /\ returncode' = None
    /\ displayed' = <<>>
    /\ result' = NoResult
    /\ raised' = ""
    /\ NoChild
    /\ pipe' = <<>>
    /\ terminal' = <<>>
    /\ UNCHANGED <<system, platform_name, name, displaying_status, status, exit_code>>
    /\ UNCHANGED <<environ, verbosity, printed, call, pc, fmtVars>>

\* the first steps of a call leave these alone
Spawning ==
    /\ hpc = "called"
    /\ UNCHANGED <<system, displaying_status, op, capture_output, rbuf, captured,
                   returncode, displayed, result, pipe, terminal, status, exit_code>>
    /\ UNCHANGED <<environ, verbosity, printed, call, pc, fmtVars>>

\* capture_process: populate_default_popen_kwargs and format_for_subprocess read
\* self.macos and self.windows, then Popen(stdout=PIPE, stderr=STDOUT, **kwargs),
\* which takes no capture_output keyword
capture_process(then) ==
    /\ Platform_name
    /\ IF capture_output = "absent"
       THEN /\ Popen(TRUE)
            /\ raised' = ""
            /\ hpc' = then
       ELSE /\ UNCHANGED <<cstate, ctext, cbytes, ccode, piped>>
            /\ raised' = "TypeError"
            /\ hpc' = "idle"

\* _run_command_integrated, up to the spawn
_run_command_integrated ==
    /\ mode' = "integrated"
    /\ capture_process("stream")

\* subprocess.run(...), up to the spawn: stdout is a pipe iff capture_output
subprocess_run ==
    /\ mode' = "direct"
    /\ Platform_name
    /\ Popen(capture_output = "True")
    /\ raised' = ""
    /\ hpc' = "communicate"

run_command_whenever_status ==
    /\ Spawning
    /\ op \in {"run_command", "check_command"}
    /\ IF displaying_status THEN _run_command_integrated ELSE subprocess_run

\* run_command, called by the application or by check_command, up to the spawn;
\* kwargs.get('capture_output') is true only of True
run_command ==
    /\ Spawning
    /\ op \in {"run_command", "check_command"}
    /\ IF displaying_status /\ capture_output # "True"
       THEN _run_command_integrated
       ELSE subprocess_run

\* check_command_output, up to the spawn
check_command_output_spawn ==
    /\ Spawning
    /\ op = "check_command_output"
    /\ UNCHANGED mode
    /\ capture_process("communicate")

\* steps of the hosting process inside a call leave these alone
InCall ==
    UNCHANGED <<system, platform_name, name, displaying_status, op, capture_output, mode,
                cstate, ctext, cbytes, ccode, piped, terminal,
                environ, verbosity, printed, call, pc, fmtVars>>

HasNewline(bytes) == \E i \in 1 .. Len(bytes) : bytes[i] = 10
FirstNewline(bytes) == CHOOSE i \in 1 .. Len(bytes) :
                          bytes[i] = 10 /\ \A j \in 1 .. (i - 1) : bytes[j] # 10
AtEOF_when_pipe_empty == pipe = <<>>

\* read() on the pipe returns b'': nothing in it and the child has closed its end
AtEOF == pipe = <<>> /\ cstate \in {"closed", "exited"}

\* process.stdout.readline() waits for bytes: the buffered reader takes what the
\* pipe holds
readline_fill ==
    /\ hpc = "stream"
    /\ ~HasNewline(rbuf)
    /\ pipe # <<>>
    /\ rbuf' = rbuf \o pipe
    /\ pipe' = <<>>
    /\ UNCHANGED <<captured, returncode, displayed, result, hpc, status, exit_code, raised>>
    /\ InCall

\* __display_func(line, end='') of the decoded line
display_line(line) ==
    IF decode(line) = <<"UnicodeDecodeError">>
    THEN /\ raised' = "UnicodeDecodeError"
         /\ hpc' = "idle"
         /\ UNCHANGED displayed
    ELSE /\ displayed' = Append(displayed, decode(line))
         /\ UNCHANGED <<raised, hpc>>

\* stream_process_output yields a line: readline() returned the bytes up to the
\* first newline, or at the end of the stream what was left
stream_line ==
    /\ hpc = "stream"
    /\ \/ /\ HasNewline(rbuf)
          /\ display_line(SubSeq(rbuf, 1, FirstNewline(rbuf)))
          /\ rbuf' = SubSeq(rbuf, FirstNewline(rbuf) + 1, Len(rbuf))
       \/ /\ ~HasNewline(rbuf)
          /\ rbuf # <<>>
          /\ AtEOF
          /\ display_line(rbuf)
          /\ rbuf' = <<>>
    /\ UNCHANGED <<captured, returncode, result, pipe, status, exit_code>>
    /\ InCall

\* readline() returned b'': the loop of _run_command_integrated ends
stream_end ==
    /\ hpc = "stream"
    /\ rbuf = <<>>
    /\ AtEOF
    /\ hpc' = "communicate"
    /\ UNCHANGED <<rbuf, captured, returncode, displayed, result, pipe,
                   status, exit_code, raised>>
    /\ InCall

\* process.communicate() reads stdout: what is buffered and what the pipe holds
communicate_read ==
    /\ hpc = "communicate"
    /\ piped
    /\ rbuf \o pipe # <<>>
    /\ captured' = captured \o rbuf \o pipe
    /\ rbuf' = <<>>
    /\ pipe' = <<>>
    /\ UNCHANGED <<returncode, displayed, result, hpc, status, exit_code, raised>>
    /\ InCall

\* process.communicate() has read stdout to its end, or there is no pipe to read
communicate_eof ==
    /\ hpc = "communicate"
    /\ piped => (rbuf = <<>> /\ AtEOF)
    /\ hpc' = "wait"
    /\ UNCHANGED <<rbuf, captured, returncode, displayed, result, pipe,
                   status, exit_code, raised>>
    /\ InCall

\* process.poll(): the exit code if the child has exited
Popen_poll == IF cstate = "exited" THEN Some(ccode) ELSE None

Popen_wait_nohang == returncode' = Popen_poll

\* process.wait(), at the end of communicate(): returns once the child has exited
Popen_wait ==
    /\ cstate = "exited"
    /\ returncode' = Some(ccode)

wait ==
    /\ hpc = "wait"
    /\ Popen_wait
    /\ hpc' = "reaped"
    /\ UNCHANGED <<rbuf, captured, displayed, result, pipe, status, exit_code, raised>>
    /\ InCall

\* the stdout communicate() returned
stdout == IF piped THEN Some(captured) ELSE None

\* run_command returns the CompletedProcess
run_command_return ==
    /\ hpc = "reaped"
    /\ op = "run_command"
    /\ result' = CompletedProcess(returncode, stdout)
    /\ hpc' = "idle"
    /\ UNCHANGED <<rbuf, captured, returncode, displayed, pipe, status, exit_code, raised>>
    /\ InCall

check_command_ignores_code ==
    /\ hpc = "reaped"
    /\ op = "check_command"
    /\ result' = CompletedProcess(returncode, stdout)
    /\ hpc' = "idle"
    /\ UNCHANGED <<rbuf, captured, returncode, displayed, pipe, status, exit_code, raised>>
    /\ InCall

\* check_command, after run_command returned
check_command ==
    /\ hpc = "reaped"
    /\ op = "check_command"
    /\ IF returncode # None /\ returncode[1] # 0
       THEN /\ hpc' = "exit"
            /\ UNCHANGED result
       ELSE /\ hpc' = "idle"
            /\ result' = CompletedProcess(returncode, stdout)
    /\ UNCHANGED <<rbuf, captured, returncode, displayed, pipe, status, exit_code, raised>>
    /\ InCall

\* check_command_output, after communicate()
check_command_output ==
    /\ hpc = "reaped"
    /\ op = "check_command_output"
    /\ IF decode(captured) = <<"UnicodeDecodeError">>
       THEN /\ raised' = "UnicodeDecodeError"
            /\ hpc' = "idle"
            /\ UNCHANGED <<displayed, result>>
       ELSE /\ UNCHANGED raised
            /\ IF returncode # None /\ returncode[1] # 0
               THEN /\ displayed' = Append(displayed, decode(captured))
                    /\ hpc' = "exit"
                    /\ UNCHANGED result
               ELSE /\ hpc' = "idle"
                    /\ result' = Text(decode(captured))
                    /\ UNCHANGED displayed
    /\ UNCHANGED <<rbuf, captured, returncode, pipe, status, exit_code>>
    /\ InCall

\* exit_with_code(process.returncode)
exit_with_code ==
    /\ hpc = "exit"
    /\ sys_exit(returncode[1])
    /\ hpc' = "exited"
    /\ UNCHANGED <<rbuf, captured, returncode, displayed, result, pipe, raised>>
    /\ InCall

\* the status display is started or stopped, between two commands
set_displaying_status ==
    /\ hpc = "idle"
    /\ status = "running"
    /\ displaying_status' = ~displaying_status
    /\ UNCHANGED <<system, platform_name, name, hpc, op, capture_output, mode, rbuf,
                   captured, returncode, displayed, result, childVars, appVars, fmtVars>>

\* the property Platform.name is read
read_name ==
    /\ hpc = "idle"
    /\ status = "running"
    /\ Platform_name
    /\ UNCHANGED <<system, displaying_status, hpc, op, capture_output, mode, rbuf,
                   captured, returncode, displayed, result, childVars, appVars, fmtVars>>

\* steps of the child leave the hosting process alone
ChildOnly == UNCHANGED <<hostVars, appVars, fmtVars, piped>>

\* the child writes one more character to its stdout
child_write ==
    /\ cstate = "running"
    /\ cbytes = <<>>
    /\ Len(ctext) < MaxOut
    /\ \E c \in Chars :
          /\ ctext' = Append(ctext, c)
          /\ cbytes' = Utf8Char(c)
    /\ UNCHANGED <<cstate, ccode, pipe, terminal>>
    /\ ChildOnly

\* a byte of the write goes into the pipe while it has room, or to the terminal
child_write_byte ==
    /\ cstate = "running"
    /\ cbytes # <<>>
    /\ IF piped
       THEN /\ Len(pipe) < PipeCap
            /\ pipe' = Append(pipe, Head(cbytes))
            /\ UNCHANGED terminal
       ELSE /\ terminal' = Append(terminal, Head(cbytes))
            /\ UNCHANGED pipe
    /\ cbytes' = Tail(cbytes)
    /\ UNCHANGED <<cstate, ctext, ccode>>
    /\ ChildOnly

\* the child has written everything and closes its stdout
child_close ==
    /\ cstate = "running"
    /\ cbytes = <<>>
    /\ cstate' = "closed"
    /\ UNCHANGED <<ctext, cbytes, ccode, pipe, terminal>>
    /\ ChildOnly

\* the child exits with some code
child_exit ==
    /\ cstate = "closed"
    /\ cstate' = "exited"
    /\ ccode' \in ChildCodes
    /\ UNCHANGED <<ctext, cbytes, pipe, terminal>>
    /\ ChildOnly

PlatIdle ==
    /\ system = "Linux"
    /\ platform_name = None
    /\ name = None
    /\ displaying_status = FALSE
    /\ hpc = "idle"
    /\ op = ""
    /\ capture_output = "absent"
    /\ mode = ""
    /\ rbuf = <<>>
    /\ captured = <<>>
    /\ returncode = None
    /\ displayed = <<>>
    /\ result = NoResult
    /\ cstate = "none"
    /\ ctext = <<>>
    /\ cbytes = <<>>
    /\ ccode = 0
    /\ piped = FALSE
    /\ pipe = <<>>
    /\ terminal = <<>>

(***************************************************************************)
(* Spec: the Local facade.  get_application(called_by_app=False)           *)
(***************************************************************************)
FmtIdle ==
    /\ procedure = <<>>
    /\ command = <<>>

AppInit ==
    /\ environ \in [HATCH_VERBOSE : EnvValues, HATCH_QUIET : EnvValues]
    /\ verbosity = Application_init(environ)
    /\ printed = <<>>
    /\ status = "running"
    /\ exit_code = 0
    /\ raised = ""
    /\ call = NoCall
    /\ pc = "idle"
    /\ FmtIdle
    /\ PlatIdle

Call(method, args, kwargs) == [method |-> method, args |-> args, kwargs |-> kwargs]

\* the calls of the Local facade: (message), (message, level), (message, code)
LocalCalls ==
    {Call(f, <<S(m)>>, <<>>) :
        f \in {"display", "display_info", "display_waiting", "display_success",
               "display_warning", "display_error", "display_mini_header"},
        m \in Messages}
    \cup {Call("display_debug", <<S(m), I(l)>>, <<>>) : m \in Messages, l \in Levels}
    \cup {Call("abort", <<S(m), I(c)>>, <<>>) : m \in Messages, c \in Codes}

\* the holder of the facade calls one of its methods
Enter(calls) ==
    /\ pc = "idle"
    /\ status = "running"
    /\ call' \in calls
    /\ pc' = "called"
    /\ printed' = <<>>
    /\ raised' = ""
    /\ UNCHANGED <<environ, verbosity, status, exit_code, fmtVars, platVars>>

\* the call of method is served
Serving(method) ==
    /\ pc = "called"
    /\ call.method = method
    /\ pc' = "idle"
    /\ UNCHANGED <<environ, verbosity, call, fmtVars, platVars>>

Local_call == Enter(LocalCalls)

Local_display ==
    Serving("display") /\ Application_display(call.args[1].str)

Local_display_info ==
    Serving("display_info") /\ Application_display_info(call.args[1].str)

Local_display_waiting ==
    Serving("display_waiting") /\ Application_display_waiting(call.args[1].str)

Local_display_success ==
    Serving("display_success") /\ Application_display_success(call.args[1].str)

Local_display_warning ==
    Serving("display_warning") /\ Application_display_warning(call.args[1].str)

Local_display_error ==
    Serving("display_error") /\ Application_display_error(call.args[1].str)

Local_display_debug ==
    Serving("display_debug") /\ Application_display_debug(call.args[1].str, call.args[2].int)

Local_display_mini_header ==
    Serving("display_mini_header") /\ Application_display_mini_header(call.args[1].str)

Local_abort ==
    Serving("abort") /\ Application_abort(call.args[1].str, call.args[2].int)

AppNext ==
    \/ Local_call
    \/ Local_display
    \/ Local_display_info
    \/ Local_display_waiting
    \/ Local_display_success
    \/ Local_display_warning
    \/ Local_display_error
    \/ Local_display_debug
    \/ Local_display_mini_header
    \/ Local_abort

(***************************************************************************)
(* FwdSpec: the Forwarding facade.  get_application(called_by_app=True)    *)
(***************************************************************************)
ArgTuples ==
    {<<>>} \cup {<<S(m)>> : m \in Messages}
           \cup {<<S(m), I(n)>> : m \in Messages, n \in IntArgs}

KwDicts ==
    {<<>>} \cup {<< <<S(k), I(n)>> >> : k \in {"level", "code"}, n \in IntArgs}

Methods ==
    {"display", "display_info", "display_waiting", "display_success", "display_warning",
     "display_error", "display_debug", "display_mini_header", "abort"}

\* the calls of the Forwarding facade: any method with any *args and **kwargs
ForwardCalls == {Call(f, a, k) : f \in Methods, a \in ArgTuples, k \in KwDicts}

FwdInit ==
    /\ environ \in [HATCH_VERBOSE : EnvValues, HATCH_QUIET : EnvValues]
    /\ verbosity = 0      \* no Application was constructed
    /\ printed = <<>>
    /\ status = "running"
    /\ exit_code = 0
    /\ raised = ""
    /\ call = NoCall
    /\ pc = "idle"
    /\ FmtIdle
    /\ PlatIdle

Forward_call == Enter(ForwardCalls)

Forward_display ==
    Serving("display") /\ InvokedApplication_display(call.args, call.kwargs)

Forward_display_info ==
    Serving("display_info") /\ InvokedApplication_display_info(call.args, call.kwargs)

Forward_display_waiting ==
    Serving("display_waiting") /\ InvokedApplication_display_waiting(call.args, call.kwargs)

Forward_display_success ==
    Serving("display_success") /\ InvokedApplication_display_success(call.args, call.kwargs)

Forward_display_warning ==
    Serving("display_warning") /\ InvokedApplication_display_warning(call.args, call.kwargs)

Forward_display_error ==
    Serving("display_error") /\ InvokedApplication_display_error(call.args, call.kwargs)

Forward_display_debug ==
    Serving("display_debug") /\ InvokedApplication_display_debug(call.args, call.kwargs)

Forward_display_mini_header ==
    Serving("display_mini_header") /\ InvokedApplication_display_mini_header(call.args, call.kwargs)

Forward_abort ==
    Serving("abort") /\ InvokedApplication_abort(call.args, call.kwargs)

FwdNext ==
    \/ Forward_call
    \/ Forward_display
    \/ Forward_display_info
    \/ Forward_display_waiting
    \/ Forward_display_success
    \/ Forward_display_warning
    \/ Forward_display_error
    \/ Forward_display_debug
    \/ Forward_display_mini_header
    \/ Forward_abort

(***************************************************************************)
(* FmtSpec: format_app_command's rendering of arbitrary serialized bytes   *)
(***************************************************************************)
ByteSample == {0, 9, 10, 15, 16, 127, 128, 171, 255}

AppIdle ==
    /\ environ = [HATCH_VERBOSE |-> "0", HATCH_QUIET |-> "0"]
    /\ verbosity = 0
    /\ printed = <<>>
    /\ status = "running"
    /\ exit_code = 0
    /\ raised = ""
    /\ call = NoCall
    /\ pc = "idle"

FmtInit ==
    /\ procedure \in SeqsUpTo(ByteSample, MaxBytes)
    /\ command = <<>>
    /\ AppIdle
    /\ PlatIdle

Format ==
    /\ command = <<>>
    /\ command' = format_procedure(procedure)
    /\ UNCHANGED <<procedure, appVars, platVars>>

FmtNext == Format

(***************************************************************************)
(* PlatSpec: a Platform, the commands it runs and their child processes    *)
(***************************************************************************)
PlatInit ==
    /\ system \in SystemNames
    /\ platform_name = None
    /\ name = None
    /\ displaying_status = FALSE
    /\ hpc = "idle"
    /\ op = ""
    /\ capture_output = "absent"
    /\ mode = ""
    /\ rbuf = <<>>
    /\ captured = <<>>
    /\ returncode = None
    /\ displayed = <<>>
    /\ result = NoResult
    /\ cstate = "none"
    /\ ctext = <<>>
    /\ cbytes = <<>>
    /\ ccode = 0
    /\ piped = FALSE
    /\ pipe = <<>>
    /\ terminal = <<>>
    /\ AppIdle
    /\ FmtIdle

HostStep ==
    \/ run_command
    \/ check_command_output_spawn
    \/ readline_fill
    \/ stream_line
    \/ stream_end
    \/ communicate_read
    \/ communicate_eof
    \/ wait
    \/ run_command_return
    \/ check_command
    \/ check_command_output
    \/ exit_with_code

ChildStep ==
    \/ child_write
    \/ child_write_byte
    \/ child_close
    \/ child_exit

PlatNext ==
    \/ set_displaying_status
    \/ read_name
    \/ call_method
    \/ HostStep
    \/ ChildStep

vars == <<appVars, fmtVars, platVars>>

Spec == AppInit /\ [][AppNext]_vars
FwdSpec == FwdInit /\ [][FwdNext]_vars
FmtSpec == FmtInit /\ [][FmtNext]_vars
PlatSpec == PlatInit /\ [][PlatNext]_vars
\* the hosting process runs on, and so does the child it spawned
PlatFair == PlatSpec /\ WF_vars(HostStep) /\ WF_vars(ChildStep)

(***************************************************************************)
(* Properties of the display facades and of the encoding                   *)
(***************************************************************************)
\* HATCH_VERBOSE minus HATCH_QUIET, read off the environment
Level == int(environ.HATCH_VERBOSE) - int(environ.HATCH_QUIET)

\* the last call has been served
Served == pc = "idle" /\ call # NoCall

\* exactly this line when cond, nothing otherwise
OnlyIf(cond, line) == printed = (IF cond THEN <<line>> ELSE <<>>)

\* C1: at every verbosity level the Local facade prints a message iff the level
\* meets the threshold of the message's kind: info, waiting, success >= 0;
\* warning >= -1; error >= -2; debug(level in 1..3) >= level; mini header >= 0, in
\* square brackets; plain display always; abort's message iff non-empty and >= -2.
C1_LocalThresholds ==
    Served =>
        LET m == call.args[1].str
        IN  CASE call.method = "display" -> OnlyIf(TRUE, <<m>>)
              [] call.method \in {"display_info", "display_waiting", "display_success"} ->
                    OnlyIf(Level >= 0, <<m>>)
              [] call.method = "display_warning" -> OnlyIf(Level >= -1, <<m>>)
              [] call.method = "display_error" -> OnlyIf(Level >= -2, <<m>>)
              [] call.method = "display_debug" ->
                    call.args[2].int \in 1 .. 3 =>
                        /\ OnlyIf(Level >= call.args[2].int, <<m>>)
                        /\ raised = ""
              [] call.method = "display_mini_header" ->
                    OnlyIf(Level >= 0, <<"[", m, "]">>)
              [] call.method = "abort" -> OnlyIf(m # "" /\ Level >= -2, <<m>>)

\* a warning shown at level -1, where info is already suppressed
C1_Witness ==
    /\ Served
    /\ call.method = "display_warning"
    /\ Level = -1
    /\ printed = << <<"hi">> >>

\* C2: Local display_debug with a level outside 1..3 raises a validation error to
\* its caller and prints nothing, at every verbosity level.
C2_DebugLevelValidated ==
    (Served /\ call.method = "display_debug" /\ call.args[2].int \notin 1 .. 3) =>
        /\ raised = "ValueError"
        /\ printed = <<>>
        /\ status = "running"

\* level 4 rejected at verbosity 0, where a valid level 1 .. 3 would be suppressed
C2_Witness ==
    /\ Served
    /\ call.method = "display_debug"
    /\ call.args[2].int = 4
    /\ Level = 0
    /\ raised = "ValueError"

\* the exit code a call of abort supplies: by keyword, or as second positional
\* argument as Application.abort(message, code) takes it; 1 when it supplies none
SuppliedCode(c) ==
    IF dict_get(c.kwargs, S("code"), I(-1)) # I(-1)
    THEN dict_get(c.kwargs, S("code"), I(-1)).int
    ELSE IF Len(c.args) >= 2 THEN c.args[2].int ELSE 1

\* C3: every abort on the Forwarding facade prints the encoded abort command and
\* then terminates the process with the exit code the call supplied, positionally
\* or by keyword, and with 1 when it supplied none.
C3_ForwardAbortExitCode ==
    (Served /\ call.method = "abort"
        /\ ~(Len(call.args) >= 2 /\ dict_get(call.kwargs, S("code"), I(-1)) # I(-1))) =>
        /\ printed = <<format_app_command("abort", call.args, call.kwargs)>>
        /\ status = "exited"
        /\ exit_code = SuppliedCode(call)

\* what a lowercase hexadecimal digit stands for
HexValue(c) ==
    CASE c = "0" -> 0 [] c = "1" -> 1 [] c = "2" -> 2 [] c = "3" -> 3
      [] c = "4" -> 4 [] c = "5" -> 5 [] c = "6" -> 6 [] c = "7" -> 7
      [] c = "8" -> 8 [] c = "9" -> 9 [] c = "a" -> 10 [] c = "b" -> 11
      [] c = "c" -> 12 [] c = "d" -> 13 [] c = "e" -> 14 [] c = "f" -> 15

LowerHex ==
    {"0", "1", "2", "3", "4", "5", "6", "7", "8", "9", "a", "b", "c", "d", "e", "f"}

\* the consumer's side: the bytes a string of hexadecimal digits stands for
Unhex(digits) ==
    [i \in 1 .. (Len(digits) \div 2) |->
        16 * HexValue(digits[2 * i - 1]) + HexValue(digits[2 * i])]

KnownStrings == Methods \cup Messages \cup {"level", "code"}

RECURSIVE Unpickle(_, _, _)
\* the consumer's side: the pickle machine on the opcodes pickle_save emits
Unpickle(b, pos, stack) ==
    LET opcode == b[pos]
        n == Len(stack)
        push(v) == Append(stack, v)
        tuple(k) == Append(SubSeq(stack, 1, n - k), T(SubSeq(stack, n - k + 1, n)))
    IN  CASE opcode = 128 -> Unpickle(b, pos + 2, stack)
          [] opcode = 149 -> Unpickle(b, pos + 9, stack)
          [] opcode = 148 -> Unpickle(b, pos + 1, stack)
          [] opcode = 140 ->
                LET text == SubSeq(b, pos + 2, pos + 1 + b[pos + 1])
                IN  Unpickle(b, pos + 2 + b[pos + 1],
                             push(S(CHOOSE s \in KnownStrings : Utf8(s) = text)))
          [] opcode = 75 -> Unpickle(b, pos + 2, push(I(b[pos + 1])))
          [] opcode = 77 -> Unpickle(b, pos + 3, push(I(b[pos + 1] + 256 * b[pos + 2])))
          [] opcode = 41 -> Unpickle(b, pos + 1, push(T(<<>>)))
          [] opcode = 125 -> Unpickle(b, pos + 1, push(D(<<>>)))
          [] opcode \in {133, 134, 135} -> Unpickle(b, pos + 1, tuple(opcode - 132))
          [] opcode = 115 ->
                Unpickle(b, pos + 1,
                         Append(SubSeq(stack, 1, n - 3),
                                D(Append(stack[n - 2].dict, <<stack[n - 1], stack[n]>>))))
          [] opcode = 46 -> IF pos = Len(b) /\ n = 1 THEN stack[1] ELSE S("trailing data")

\* C4: every call of a capability on the Forwarding facade, at every verbosity
\* level and with any arguments, prints exactly one line, the tag and the hex of a
\* command token that carries the method's own name and exactly the call's
\* positional and keyword arguments; nothing is suppressed, validated or printed
\* as plain text.
C4_ForwardEveryCall ==
    Served =>
        /\ raised = ""
        /\ Len(printed) = 1
        /\ Len(printed[1]) > 2
        /\ printed[1][1] = "__HATCH__"
        /\ printed[1][2] = ":"
        /\ Unpickle(Unhex(SubSeq(printed[1], 3, Len(printed[1]))), 1, <<>>)
               = T(<<S(call.method), T(call.args), D(call.kwargs)>>)

\* display_debug(level=4) forwarded at the quietest level
C4_Witness ==
    /\ Served
    /\ call.method = "display_debug"
    /\ call.kwargs = << <<S("level"), I(4)>> >>
    /\ Level = -MaxEnv
    /\ Len(printed) = 1

\* C5: format_app_command renders n serialized bytes as the tag, one colon and
\* exactly 2n characters, the i-th pair being byte i in two lowercase hexadecimal
\* digits; no newline and nothing else, also when a byte is 0x0a.
C5_EncodedLine ==
    command # <<>> =>
        /\ Len(command) = 2 + 2 * Len(procedure)
        /\ command[1] = "__HATCH__"
        /\ command[2] = ":"
        /\ \A i \in 1 .. Len(procedure) :
              /\ command[2 * i + 1] \in LowerHex
              /\ command[2 * i + 2] \in LowerHex
              /\ 16 * HexValue(command[2 * i + 1]) + HexValue(command[2 * i + 2])
                    = procedure[i]

\* a formatted payload holding the newline byte
C5_Witness ==
    /\ command # <<>>
    /\ Len(procedure) >= 2
    /\ procedure[1] = 10
    /\ procedure[2] = 255

(***************************************************************************)
(* Properties of the execution layer                                       *)
(***************************************************************************)
\* the call has ended, by returning or by ending the process, and it had a child
Finished(methods) ==
    /\ op \in methods
    /\ hpc \in {"idle", "exited"}
    /\ raised = ""

\* C6: check_command and check_command_output end the hosting process with the
\* child's exit code when it is not zero, in the direct and in the streaming mode,
\* and when it is zero they do not end the process and return the result.
C6_CheckedExitCode ==
    Finished({"check_command", "check_command_output"}) =>
        /\ cstate = "exited"
        /\ IF ccode # 0
           THEN /\ hpc = "exited"
                /\ status = "exited"
                /\ exit_code = ccode
                /\ result = NoResult
           ELSE /\ hpc = "idle"
                /\ status = "running"
                /\ result.kind = (IF op = "check_command" THEN "CompletedProcess" ELSE "str")
                /\ op = "check_command" => result.returncode = Some(0)

\* check_command in streaming mode, the child exiting with 3
C6_Witness ==
    /\ Finished({"check_command"})
    /\ mode = "integrated"
    /\ ccode = 3
    /\ status = "exited"
    /\ exit_code = 3

\* C7: check_command_output reads the child's output to its end and waits for the
\* child before it looks at the exit code; on a non-zero exit the decoded output
\* goes to the display sink exactly once, before the process ends; on a zero exit
\* nothing goes to the display sink and the decoded output is returned.
C7_CheckCommandOutput ==
    op = "check_command_output" =>
        /\ (hpc \in {"reaped", "exit", "exited"} \/ Finished({op})) =>
              /\ cstate = "exited"
              /\ cbytes = <<>> /\ pipe = <<>>
              /\ captured = encode(ctext)
              /\ returncode = Some(ccode)
        /\ hpc \in {"called", "communicate", "wait", "reaped"} => displayed = <<>>
        /\ hpc \in {"exit", "exited"} =>
              /\ ccode # 0
              /\ displayed = <<ctext>>
        /\ hpc = "exit" => status = "running"
        /\ (Finished({op}) /\ ccode = 0) =>
              /\ displayed = <<>>
              /\ result = Text(ctext)

\* output of two characters or more displayed once, the process ended with 3
C7_Witness ==
    /\ op = "check_command_output"
    /\ status = "exited"
    /\ exit_code = 3
    /\ Len(ctext) >= 2
    /\ ctext[1] = "e-acute"
    /\ displayed = <<ctext>>

RECURSIVE Lines(_, _)
\* the lines of a text: each ends with its newline, but for a last unfinished one
Lines(text, line) ==
    IF text = <<>> THEN (IF line = <<>> THEN <<>> ELSE <<line>>)
    ELSE IF Head(text) = "\n"
    THEN <<Append(line, "\n")>> \o Lines(Tail(text), <<>>)
    ELSE Lines(Tail(text), Append(line, Head(text)))

\* run_command has returned from the streaming mode
StreamReturned ==
    /\ op = "run_command"
    /\ mode = "integrated"
    /\ hpc = "idle"
    /\ raised = ""

\* C8: in streaming mode, of a child that writes lines and exits with code c, the
\* display sink has received exactly those lines, each once and in order, when
\* run_command returns; the call does return, and the result carries c and an
\* empty captured stdout.
C8_Streaming ==
    /\ [](StreamReturned =>
            /\ cstate = "exited"
            /\ displayed = Lines(ctext, <<>>)
            /\ result = CompletedProcess(Some(ccode), Some(<<>>)))
    /\ [](op = "run_command" /\ hpc = "stream" => <>StreamReturned)

\* two lines streamed, the second unfinished, and exit code 3 returned
C8_Witness ==
    /\ StreamReturned
    /\ Len(displayed) = 2
    /\ displayed[1] = <<"e-acute", "\n">>
    /\ result.returncode = Some(3)

\* C9: at every run_command call the streaming mode is used iff displaying_status
\* is true at the call and the caller did not ask for captured output; otherwise
\* the command is run by a direct blocking spawn-and-wait, and run_command sends
\* nothing to the display sink.
C9_ModeSelection ==
    [][ /\ (hpc = "called" /\ op \in {"run_command", "check_command"}) =>
              mode' = (IF displaying_status /\ capture_output # "True"
                       THEN "integrated" ELSE "direct")
        /\ (op' \in {"run_command", "check_command"} /\ mode' = "direct") =>
              /\ displayed' = <<>>
              /\ hpc' \notin {"stream"}
              /\ (hpc' \in {"reaped", "idle", "exit", "exited"}) =>
                    (cstate' = "exited" /\ returncode' = Some(ccode'))
      ]_vars

\* a command run directly although the status display is on: the caller asked for
\* captured output, and the child's output was captured, not displayed
C9_Witness ==
    /\ op = "run_command"
    /\ mode = "direct"
    /\ displaying_status
    /\ capture_output = "True"
    /\ result.kind = "CompletedProcess"
    /\ result.stdout = Some(<<97, 10>>)
    /\ displayed = <<>>

\* C10: whatever system name the operating system reports, Platform.name is one of
\* "linux", "windows", "macos", and once computed it never changes.
C10_PlatformIdentity ==
    [][ /\ name' # None => name'[1] \in {"linux", "windows", "macos"}
        /\ name # None => name' = name
      ]_vars

====
